---- MODULE Spec2Model ----
(***************************************************************************)
(* Model of rover/ros2/src/python_utils/python_utils/pysubscribers.py:     *)
(* VisualDebuggerSubscriber (__init__, cb_visual_debugger, draw),           *)
(* ExtrinsicSubscriber.cb_extrinsic_params, WaypointSuscriber              *)
(* (__init__, cb_screen_point, draw).                                      *)
(*                                                                         *)
(* Units.  Python floats are kept as exact scaled integers:                *)
(*   - ppmy (pixels per metre) is stored doubled (6 stands for 3.0 px/m,   *)
(*     5 for 2.5 px/m);                                                    *)
(*   - distances in metres are stored in hundredths (a round(x, 2) value   *)
(*     times 100);                                                         *)
(*   - the curvature is stored in tenths (1 stands for 0.1);              *)
(*   - the curve coefficients AL, AR, BL, BR are stored in                 *)
(*     ten-thousandths, and an x coordinate fed to the projection is in    *)
(*     ten-thousandths of a pixel;                                         *)
(*   - a normalized click coordinate is a numerator over NormDen.          *)
(* draw runs on the render context; the subscription callbacks run on      *)
(* executor threads and may be scheduled between any two steps of draw.    *)
(***************************************************************************)
EXTENDS Integers, Sequences, FiniteSets, TLC

\* Python None.  Optional numbers are kept boxed: None or Some(v).
None == <<>>

Some(v) == <<v>>

Val(o) == o[1]

\* ------------------------------------------------------------------------
\* Bounds of the model
NumCalibs == 2      \* distinct calibration files a reload may find
MaxFine == 2        \* small curvature inputs are 0.1 * (-1..MaxFine)
MaxOffset == 2      \* configured offsets are 0.007 * (0..MaxOffset) and the default
MaxCurv == 1        \* curvature inputs are 10.0 * (-MaxCurv..MaxCurv)
NormDen == 2        \* click coordinates are k/NormDen, k in 0..NormDen
MaxReloads == 2     \* calibration-update events delivered in one run
MaxMsgs == 2        \* visual-debugger messages delivered in one run

\* ------------------------------------------------------------------------
\* Program constants (WaypointSuscriber.__init__, ExtrinsicSubscriber.__init__)
CURV_OFFSET == 3                  \* _CURV_OFFSET = 0.003, in thousandths
BOT_MARGI == 8                    \* _BOT_MARGI = 0.08, in hundredths
BOT_WIDTH == 50                   \* _BOT_WIDTH = 0.5, in hundredths
VER_THICK == 2
HOZ_THICK == 2
GUI_WAYPOINT_AREA == 1
VIDEO_WIDTH == 640
VIDEO_HEIGHT == 360
COLORS == <<"red", "goldenrod", "yellow", "green">>
DISTAN_M == <<100, 150, 300, 500>>    \* [1.0, 1.5, 3.0, 5.0] in hundredths
Consumers == {"WaypointSuscriber"}
CamLabels == {"C"}                \* cam_labels=["C"]
cam_label == "C"                  \* WaypointSuscriber.cam_label
MsgLabels == {"C", "X"}           \* labels a calibration-update event carries

\* ------------------------------------------------------------------------
\* Arithmetic helpers
Abs(a) == IF a < 0 THEN -a ELSE a

Min(a, b) == IF a <= b THEN a ELSE b

\* Python int(a / b) on floats: truncation toward zero
TruncDiv(a, b) ==
    IF (a >= 0) = (b > 0) THEN Abs(a) \div Abs(b) ELSE -(Abs(a) \div Abs(b))

\* numpy ceil of a / b, b > 0
CeilDiv(a, b) == -((-a) \div b)

\* Python round(a / b, 0) for a >= 0, b > 0: nearest, ties to even
RoundHalfEven(a, b) ==
    LET q == a \div b
        r == a % b
    IN  IF 2 * r < b THEN q
        ELSE IF 2 * r > b THEN q + 1
        ELSE IF q % 2 = 0 THEN q ELSE q + 1

\* ------------------------------------------------------------------------
\* Calibration fixtures: the contents a calibration file can have.
\* M_inv is a 3x3 matrix by rows; the contours are axis-aligned rectangles
\* <<x0, y0, x1, y1>>.
CalibTable == <<
    [id |-> 1, view_coord |-> <<8, 23>>, ppmy |-> 6,
     unwarped_size |-> <<16, 22>>, image_size |-> <<16, 20>>,
     M_inv |-> <<1, 0, 0,  0, 1, 0,  0, 0, 1>>,
     waypoint_area |-> <<2, 6, 14, 50>>,
     undistord_cnt |-> <<4, 8, 11, 23>>],
    [id |-> 2, view_coord |-> <<8, 19>>, ppmy |-> 5,
     unwarped_size |-> <<16, 16>>, image_size |-> <<16, 28>>,
     M_inv |-> <<1, 0, 0,  0, 1, 0,  1, 0, -7>>,
     waypoint_area |-> <<2, 2, 14, 14>>,
     undistord_cnt |-> <<2, 2, 12, 12>>],
    [id |-> 3, view_coord |-> <<9, 17>>, ppmy |-> 4,
     unwarped_size |-> <<16, 16>>, image_size |-> <<20, 16>>,
     M_inv |-> <<2, 0, 0,  0, 2, 0,  0, 0, 2>>,
     waypoint_area |-> <<5, 6, 13, 40>>,
     undistord_cnt |-> <<5, 6, 12, 18>>],
    [id |-> 4, view_coord |-> <<8, 18>>, ppmy |-> 7,
     unwarped_size |-> <<16, 16>>, image_size |-> <<16, 20>>,
     M_inv |-> <<1, 0, 0,  0, 1, 0,  0, 0, 1>>,
     waypoint_area |-> <<0, 5, 16, 30>>,
     undistord_cnt |-> <<0, 5, 16, 17>>],
    [id |-> 5, view_coord |-> <<8, 32>>, ppmy |-> 12,
     unwarped_size |-> <<16, 31>>, image_size |-> <<16, 32>>,
     M_inv |-> <<1, 0, 0,  0, 1, 0,  0, 0, 2>>,
     waypoint_area |-> <<0, 0, 16, 24>>,
     undistord_cnt |-> <<0, 0, 16, 16>>] >>

CalibIds == 1..NumCalibs

\* Intrinsic parameters of the camera body (camera matrix centre and one
\* radial coefficient in hundredths), or None when not loaded.
IntrinsicFixture == [cx |-> 8, cy |-> 8, k1 |-> 1]

Curvatures == {100 * k : k \in (-MaxCurv)..MaxCurv}
FineCurvatures == (-1)..MaxFine
\* A curvature eight times the largest of them: 1.6
SteepCurvatures == {8 * MaxFine}
\* Values GUI_PROJECTION_BOT_CURV_OFFSET may hold (line 190), in thousandths.
Offsets == {CURV_OFFSET} \cup {7 * j : j \in 0..MaxOffset}

NormCoords == 0..NormDen

\* ------------------------------------------------------------------------
\* Pure geometry

\* get_projection_point_src(coords_dst=(x, y, 1), INVM): homogeneous multiply
\* then perspective divide; xm is x in ten-thousandths.  None when the
\* homogeneous scale is zero (the call raises).
get_projection_point_src(xm, y, INVM) ==
    LET X == INVM[1] * xm + (INVM[2] * y + INVM[3]) * 10000
        Y == INVM[4] * xm + (INVM[5] * y + INVM[6]) * 10000
        W == INVM[7] * xm + (INVM[8] * y + INVM[9]) * 10000
    IN  IF W = 0 THEN None ELSE <<TruncDiv(X, W), TruncDiv(Y, W)>>

\* get_distor_point(pt, mtx, dist): forward radial lens distortion about the
\* principal point, truncated to a pixel.
\* int(v * (1 + k1 * r2)) with k1 in hundredths; r2 is split into hundreds
\* and a remainder so that no intermediate product leaves 32 bits.
get_distor_point(pt, m, d) ==
    LET dx == pt[1] - m.cx
        dy == pt[2] - m.cy
        r2 == dx * dx + dy * dy
        Scaled(v) ==
            LET rest == v * d.k1 * (r2 % 100)
                fl == v * (1 + d.k1 * (r2 \div 100)) + (rest \div 100)
            IN  IF fl >= 0 \/ rest % 100 = 0 THEN fl ELSE fl + 1
    IN  <<m.cx + Scaled(dx), m.cy + Scaled(dy)>>

\* Sign of cv2.pointPolygonTest(contour, pt, measureDist=True) for a
\* rectangular contour: 1 inside, 0 on the boundary, -1 outside.
pointPolygonTest(cnt, pt) ==
    LET m == Min(Min(pt[1] - cnt[1], cnt[3] - pt[1]),
                 Min(pt[2] - cnt[2], cnt[4] - pt[2]))
    IN  IF m > 0 THEN 1 ELSE IF m = 0 THEN 0 ELSE -1

\* int(view_coord[1] - _DISTAN_M[-1] * ppmy)            (lines 274-276)
YLimit(c) == TruncDiv(200 * c.view_coord[2] - DISTAN_M[4] * c.ppmy, 200)

\* The binary exponent e of n / 200: 2^e <= n / 200 < 2^(e + 1), n > 0
BinExp(n) ==
    CHOOSE e \in -8..20 :
        IF e >= 0 THEN 200 * 2^e <= n /\ n < 400 * 2^e
        ELSE 200 <= n * 2^(-e) /\ n * 2^(-e) < 400

\* The double nearest to n / 200 (n odd, not a multiple of 25, so that
\* n / 200 is no binary fraction) lies above it: the 53-bit significand is
\* n * 2^(49 - e) / 25 rounded to nearest, and it is rounded up when the
\* remainder modulo 25 is 13 or more.  2^20 = 1 modulo 25.
DoubleAbove(n) ==
    ((n % 25) * (2^((49 - BinExp(n)) % 20) % 25)) % 25 >= 13

\* Python round(a / b, 2) in hundredths, for floats a >= 0 and b > 0 whose
\* exact quotient is A / (100 * B): the float quotient is the double nearest
\* to the exact one, and round() takes the hundredth nearest to that double.
\* The two differ from the exact rounding only when the exact quotient is
\* half-way between two hundredths: the double is then the exact value (and
\* round() goes to the even hundredth), or lies above or below it.
RoundFloat2(A, B) ==
    LET q == A \div B
        n == 2 * q + 1
    IN  IF 2 * (A % B) # B THEN RoundHalfEven(A, B)
        ELSE IF n % 25 = 0 THEN (IF q % 2 = 0 THEN q ELSE q + 1)
        ELSE IF DoubleAbove(n) THEN q + 1 ELSE q

\* round(abs(idx_y) / ppmy, 2), in hundredths           (line 303)
ProjMEntry(idx, c) == RoundFloat2(200 * Abs(idx), c.ppmy)

\* first value of idx_y                                 (lines 299-300, 324-326)
StartIdx(c) == -(c.view_coord[2] - c.unwarped_size[2])

\* One projected sample of a side's curve (lines 334-349 / 357-372): the
\* point and the sign of the containment test, or None when the projection
\* raises.  A, B in ten-thousandths; C in pixels.
SamplePoint(A, B, C, idx, c, m, d, distord) ==
    LET p == get_projection_point_src(A * idx * idx + B * idx + C * 10000,
                                      c.view_coord[2] + idx, c.M_inv)
    IN  IF p = None THEN None
        ELSE IF distord
             THEN LET q == get_distor_point(p, m, d)
                  IN  [pt |-> q, in_cnt |-> pointPolygonTest(c.waypoint_area, q)]
             ELSE [pt |-> p, in_cnt |-> pointPolygonTest(c.undistord_cnt, p)]

\* Center-line endpoints (lines 278-296); None when a projection raises.
CntLine(c, yl, m, d) ==
    LET sp == get_projection_point_src(c.view_coord[1] * 10000, yl, c.M_inv)
        ip == get_projection_point_src(c.view_coord[1] * 10000,
                                       c.unwarped_size[2], c.M_inv)
    IN  IF sp = None \/ ip = None THEN None
        ELSE <<get_distor_point(sp, m, d), get_distor_point(ip, m, d)>>

\* int(np.ceil((_BOT_WIDTH * 0.5 + _BOT_MARGI) * ppmy))  (lines 311-312)
CtDist(c) == CeilDiv((BOT_WIDTH + 2 * BOT_MARGI) * c.ppmy, 400)

\* Coefficients with the offset added to the right-side term instead of
\* scaling it.
CoefficientsAdditive(curv, off, c) ==
    LET ct_dist == CeilDiv((BOT_WIDTH + 2 * BOT_MARGI) * c.ppmy, 400)
    IN  [AR |-> IF curv > 0 THEN 10 * curv + off ELSE 10 * curv - off,
         AL |-> 10 * curv,
         CR |-> c.view_coord[1] + ct_dist,
         CL |-> c.view_coord[1] - ct_dist,
         BL |-> 0]

\* Coefficients whose right side scales the curvature by 0.02 +- offset.
CoefficientsSteeper(curv, off, c) ==
    LET ct_dist == CeilDiv((BOT_WIDTH + 2 * BOT_MARGI) * c.ppmy, 400)
    IN  [AR |-> IF curv > 0 THEN (20 + off) * curv
                ELSE (20 - off) * curv,
         AL |-> 10 * curv,
         CR |-> c.view_coord[1] + ct_dist,
         CL |-> c.view_coord[1] - ct_dist,
         BL |-> 0]

\* Curve coefficients (lines 311-319); off is _CURV_OFFSET in thousandths,
\* curv the curvature in tenths, AR and AL come out in ten-thousandths.
Coefficients(curv, off, c) ==
    LET ct_dist == CtDist(c)
    IN  [AR |-> IF curv > 0 THEN (10 + off) * curv
                ELSE (10 - off) * curv,
         AL |-> 10 * curv,
         CR |-> c.view_coord[1] + ct_dist,
         CL |-> c.view_coord[1] - ct_dist,
         BL |-> 0]

\* ------------------------------------------------------------------------
\* State
VARIABLES
    intrinsic,      \* ExtrinsicSubscriber.intrinsic: [mtx, distortion_coefficients]
    cams,           \* extrinsic.cams: label -> calibration record or None
    mtx,            \* extrinsic.mtx
    dist,           \* extrinsic.dist
    update,         \* extrinsic.update: consumer -> dirty flag
    x_norm, y_norm, \* WaypointSuscriber click point, boxed
    x_img, y_img,
    incnt,
    curvature,
    curv_offset,    \* _CURV_OFFSET, in thousandths; fixed at construction
    distord_lines,
    coef,           \* [AR, BR, CR, AL, BL, CL]
    y_limit,        \* boxed
    cnt_line,       \* _cnt_line
    proj_m,         \* _proj_m, boxed
    pc,             \* position of the render context inside draw
    loc,            \* draw's locals: idx_y, increment, lout, rout, left_proj, right_proj
    img,            \* primitives drawn on the frame handed to the running draw
    ret,            \* how the running draw ended: "none", "returned" or the exception
    seen,           \* ids of the calibration records the running draw has read
    dirty,          \* what the running draw read at line 273: "unread", "true", "false"
    last,           \* the callback invocation that has just run: input and outcome
    nrel,           \* calibration-update events delivered so far
    ipc,            \* position of the caller inside IntrinsicClass.load
    ifile,          \* what the running load found under file_name
    iret,           \* how the running load ended: "none", "returned" or the exception
    msg,            \* VisualDebuggerSubscriber.msg
    type,           \* VisualDebuggerSubscriber.type
    calls,          \* invocations of cb_visual_debugger, in order of arrival
    vpc,            \* position of the render context inside the debugger's draw
    color,          \* the debugger draw's local
    shown           \* the text on the frame of the latest debugger draw, boxed

\* The fields and the calls of VisualDebuggerSubscriber
overlay == <<msg, type, calls, vpc, color, shown>>

\* Everything else
rover == <<intrinsic, cams, mtx, dist, update, x_norm, y_norm, x_img, y_img,
           incnt, curvature, curv_offset, distord_lines, coef, y_limit,
           cnt_line, proj_m, pc, loc, img, ret, seen, dirty, last, nrel, ipc,
           ifile, iret>>

vars == <<rover, overlay>>

loader == <<ipc, ifile, iret>>
extr == <<intrinsic, loader, cams, mtx, dist>>
click == <<x_norm, y_norm, x_img, y_img, incnt>>
cache == <<y_limit, cnt_line, proj_m>>
drawst == <<pc, loc, img, ret, seen, dirty>>

W == "WaypointSuscriber"

NoLocals == [ct_dist |-> 0, idx_y |-> 0, increment |-> 1, lout |-> FALSE,
             rout |-> FALSE, left_proj |-> <<>>, right_proj |-> <<>>]

BlankFrame == [marker |-> None, contour |-> None, left |-> <<>>,
               right |-> <<>>, cline |-> None]

\* last while no callback has just run (a step of draw came after it)
\* arg is the click's (x, y); valid is the boxed sign of ValidPoint when the
\* click handler computed it
NoEvent == [op |-> "none", label |-> "", ok |-> FALSE, msg_type |-> "",
            result |-> "None", arg |-> <<>>, valid |-> None]

\* Registration that leaves the new consumer's flag clear
RegisterConsumerClear == [c \in Consumers |-> FALSE]

\* WaypointSuscriber.__init__ line 170: registration of the consumer
RegisterConsumer == [c \in Consumers |-> TRUE]

\* IntrinsicClass.__init__ lines 26-34: every field None
IntrinsicEmpty ==
    [image_width |-> None, image_height |-> None, mtx |-> None,
     distortion_model |-> None, distortion_coefficients |-> None,
     rectification_matrix |-> None, projection_matrix |-> None,
     map1 |-> None, map2 |-> None]

\* The values lines 72-78 read from a well-formed intrinsic file, and the
\* maps lines 80-88 would derive from them
IntrinsicFull ==
    [image_width |-> Some(VIDEO_WIDTH), image_height |-> Some(VIDEO_HEIGHT),
     mtx |-> [cx |-> IntrinsicFixture.cx, cy |-> IntrinsicFixture.cy],
     distortion_model |-> Some("plumb_bob"),
     distortion_coefficients |-> [k1 |-> IntrinsicFixture.k1],
     rectification_matrix |-> Some("R"), projection_matrix |-> Some("P"),
     map1 |-> Some("map1"), map2 |-> Some("map2")]

\* What a YAML mapping holds under one of the keys image_width,
\* image_height and distortion_model: no such key, the key with a null
\* value, the key with a value
KeyStates == {"absent", "null", "value"}

\* No call of load is running
NoFile == [doc |-> "none", image_width |-> "absent",
           image_height |-> "absent", distortion_model |-> "absent"]

\* A file load gives up on before line 72: no file ("absent"), text that is
\* not YAML ("unparsable"), YAML that is not a mapping ("malformed"), a
\* mapping without one of the four matrix keys ("nokey"), a mapping with a
\* matrix block that is null or whose data does not fit rows x cols
\* ("badshape").  What it holds under the three other keys is never read.
Unread(d) == [doc |-> d, image_width |-> "absent",
              image_height |-> "absent", distortion_model |-> "absent"]

\* A mapping whose four matrices pass lines 55-70, with what it holds under
\* image_width, image_height and distortion_model
Fits(w, h, m) == [doc |-> "fits", image_width |-> w, image_height |-> h,
                  distortion_model |-> m]

\* What the file system can hold under file_name
FileKinds ==
    {Unread(d) : d \in {"absent", "unparsable", "malformed", "nokey",
                        "badshape"}}
    \cup {Fits(w, h, m) : w \in KeyStates, h \in KeyStates, m \in KeyStates}

\* A well-formed file: the four matrices and a value under every other key
WellFormed == Fits("value", "value", "value")

\* data[key] of lines 72, 73 and 75 for a key the mapping has: None for a
\* null value
Read(k, v) == IF k = "null" THEN None ELSE v

\* A call of cb_visual_debugger that has not arrived
NoCall == [at |-> "idle", data |-> "", type |-> ""]

\* VisualDebuggerSubscriber.__init__, lines 36-51
ConstructedDebugger ==
    /\ msg = ""
    /\ type = "INFO"
    /\ calls = [i \in 1..MaxMsgs |-> NoCall]
    /\ vpc = "idle"
    /\ color = "white"
    /\ shown = None

\* WaypointSuscriber.__init__ and ExtrinsicSubscriber.__init__, but for the
\* environment's curvature offset (line 190).  Line 112 builds the intrinsic
\* model with every field None, and lines 115-119 hand its mtx and
\* distortion_coefficients, None both, to the extrinsic model.
Constructed ==
    /\ ConstructedDebugger
    /\ intrinsic = IntrinsicEmpty
    /\ cams = [l \in CamLabels |-> None]
    /\ mtx = intrinsic.mtx
    /\ dist = intrinsic.distortion_coefficients
    /\ update = RegisterConsumer
    /\ x_norm = None /\ y_norm = None /\ x_img = None /\ y_img = None
    /\ incnt = FALSE
    /\ curvature = 0
    /\ distord_lines = TRUE
    /\ coef = [AR |-> 0, BR |-> 0, CR |-> 0, AL |-> 0, BL |-> 0, CL |-> 0]
    /\ y_limit = None /\ cnt_line = None /\ proj_m = None
    /\ pc = "idle"
    /\ loc = NoLocals
    /\ img = BlankFrame
    /\ ret = "none"
    /\ seen = {}
    /\ dirty = "unread"
    /\ last = NoEvent
    /\ nrel = 0
    /\ ipc = "idle"
    /\ ifile = NoFile
    /\ iret = "none"

\* The node as it is deployed: the offset keeps its default.
Init ==
    /\ Constructed
    /\ curv_offset = CURV_OFFSET

\* ------------------------------------------------------------------------
\* IntrinsicClass.load (intrinsic_utils.py lines 36-106)

\* Names load reads that neither the function, the module (imports of lines
\* 10-14) nor the object (attributes of lines 20-34) binds: FILE_NAME (lines
\* 64, 91, 106), cv2 (lines 80, 86), self._VIDEO_WIDTH and
\* self._VIDEO_HEIGHT (line 85)
Unbound == {"FILE_NAME", "cv2", "_VIDEO_WIDTH", "_VIDEO_HEIGHT"}

\* lines 43-53: open and parse the file, or report that there is none; text
\* that is not YAML raises at line 48, any YAML document goes on to line 55
LoadBegin(kind) ==
    /\ ipc = "idle"
    /\ ifile' = kind
    /\ IF kind.doc = "absent"
       THEN ipc' = "end" /\ iret' = "returned"
       ELSE IF kind.doc = "unparsable"
       THEN ipc' = "except" /\ iret' = "none"
       ELSE ipc' = "keys" /\ iret' = "none"
    /\ last' = NoEvent
    /\ UNCHANGED <<overlay, curv_offset, intrinsic, cams, mtx, dist, nrel,
                   update, click, curvature, distord_lines, coef, cache,
                   drawst>>

\* lines 55-70: the four matrix keys are checked and reshaped; the message
\* of line 62-64 reads FILE_NAME before the raise of line 65.  A document
\* that is not a mapping fails here too, at line 61 or at line 62.
LoadKeys ==
    /\ ipc = "keys"
    /\ ipc' = IF ifile.doc = "fits" THEN "assign" ELSE "except"
    /\ last' = NoEvent
    /\ UNCHANGED <<overlay, curv_offset, intrinsic, ifile, iret, cams, mtx,
                   dist, nrel, update, click, curvature, distord_lines, coef,
                   cache, drawst>>

\* lines 72-74: a mapping without image_width raises KeyError at line 72,
\* one without image_height at line 73, after line 72 has assigned; a null
\* value is assigned like any other
LoadAssignMtx ==
    /\ ipc = "assign"
    /\ IF ifile.image_width = "absent"
       THEN ipc' = "except" /\ UNCHANGED intrinsic
       ELSE IF ifile.image_height = "absent"
       THEN /\ ipc' = "except"
            /\ intrinsic' = [intrinsic EXCEPT
                  !.image_width =
                      Read(ifile.image_width, IntrinsicFull.image_width)]
       ELSE /\ ipc' = "assign2"
            /\ intrinsic' = [intrinsic EXCEPT
                  !.image_width =
                      Read(ifile.image_width, IntrinsicFull.image_width),
                  !.image_height =
                      Read(ifile.image_height, IntrinsicFull.image_height),
                  !.mtx = IntrinsicFull.mtx]
    /\ last' = NoEvent
    /\ UNCHANGED <<overlay, curv_offset, ifile, iret, cams, mtx, dist, nrel,
                   update, click, curvature, distord_lines, coef, cache,
                   drawst>>

\* lines 75-78: a mapping without distortion_model raises KeyError at
\* line 75; a null value is assigned and lines 76-78 follow
LoadAssignRest ==
    /\ ipc = "assign2"
    /\ IF ifile.distortion_model = "absent"
       THEN ipc' = "except" /\ UNCHANGED intrinsic
       ELSE /\ ipc' = "maps"
            /\ intrinsic' = [intrinsic EXCEPT
                  !.distortion_model =
                      Read(ifile.distortion_model,
                           IntrinsicFull.distortion_model),
                  !.distortion_coefficients =
                      IntrinsicFull.distortion_coefficients,
                  !.rectification_matrix = IntrinsicFull.rectification_matrix,
                  !.projection_matrix = IntrinsicFull.projection_matrix]
    /\ last' = NoEvent
    /\ UNCHANGED <<overlay, curv_offset, ifile, iret, cams, mtx, dist, nrel,
                   update, click, curvature, distord_lines, coef, cache,
                   drawst>>

\* lines 80-91: the undistortion maps and the message of success
LoadMaps ==
    /\ ipc = "maps"
    /\ IF {"cv2", "_VIDEO_WIDTH", "_VIDEO_HEIGHT", "FILE_NAME"} \cap Unbound # {}
       THEN /\ ipc' = "except" /\ iret' = "none"
            /\ intrinsic' =
                  IF {"cv2", "_VIDEO_WIDTH", "_VIDEO_HEIGHT"} \cap Unbound # {}
                  THEN intrinsic
                  ELSE [intrinsic EXCEPT !.map1 = IntrinsicFull.map1,
                                         !.map2 = IntrinsicFull.map2]
       ELSE /\ ipc' = "end" /\ iret' = "returned"
            /\ intrinsic' = [intrinsic EXCEPT !.map1 = IntrinsicFull.map1,
                                               !.map2 = IntrinsicFull.map2]
    /\ last' = NoEvent
    /\ UNCHANGED <<overlay, curv_offset, ifile, cams, mtx, dist, nrel,
                   update, click, curvature, distord_lines, coef, cache,
                   drawst>>

\* Handler that leaves the image size as it is
LoadExceptKeepsSize ==
    /\ ipc = "except"
    /\ intrinsic' = [IntrinsicEmpty EXCEPT
                        !.image_width = intrinsic.image_width,
                        !.image_height = intrinsic.image_height]
    /\ ipc' = "errmsg"
    /\ last' = NoEvent
    /\ UNCHANGED <<overlay, curv_offset, ifile, iret, cams, mtx, dist, nrel,
                   update, click, curvature, distord_lines, coef, cache,
                   drawst>>

\* Handler that leaves the distortion coefficients as they are
LoadExceptKeepsDist ==
    /\ ipc = "except"
    /\ intrinsic' = [IntrinsicEmpty EXCEPT !.distortion_coefficients =
                                            intrinsic.distortion_coefficients]
    /\ ipc' = "errmsg"
    /\ last' = NoEvent
    /\ UNCHANGED <<overlay, curv_offset, ifile, iret, cams, mtx, dist, nrel,
                   update, click, curvature, distord_lines, coef, cache,
                   drawst>>

\* lines 93-102: the handler resets every field
LoadExcept ==
    /\ ipc = "except"
    /\ intrinsic' = IntrinsicEmpty
    /\ ipc' = "errmsg"
    /\ last' = NoEvent
    /\ UNCHANGED <<overlay, curv_offset, ifile, iret, cams, mtx, dist, nrel,
                   update, click, curvature, distord_lines, coef, cache,
                   drawst>>

\* lines 104-106: the handler's message reads FILE_NAME; an exception
\* raised inside the handler leaves load
LoadErrMsg ==
    /\ ipc = "errmsg"
    /\ ipc' = "end"
    /\ iret' = IF "FILE_NAME" \in Unbound THEN "NameError" ELSE "returned"
    /\ last' = NoEvent
    /\ UNCHANGED <<overlay, curv_offset, intrinsic, ifile, cams, mtx, dist,
                   nrel, update, click, curvature, distord_lines, coef,
                   cache, drawst>>

\* the call is over
LoadReturn ==
    /\ ipc = "end"
    /\ ipc' = "idle"
    /\ ifile' = NoFile
    /\ iret' = "none"
    /\ last' = NoEvent
    /\ UNCHANGED <<overlay, curv_offset, intrinsic, cams, mtx, dist, nrel,
                   update, click, curvature, distord_lines, coef, cache,
                   drawst>>

load ==
    \/ \E kind \in FileKinds : LoadBegin(kind)
    \/ LoadKeys \/ LoadAssignMtx \/ LoadAssignRest \/ LoadMaps
    \/ LoadExcept \/ LoadErrMsg \/ LoadReturn

\* The call of load at start-up, where the file system holds a well-formed
\* file under file_name, up to the point where it ends.  Between line 76 and
\* the handler's line 96 the object holds the camera matrix and the
\* distortion coefficients of the file; a calibration update handled
\* meanwhile reads them at lines 133-134.
LoadWellFormed ==
    \/ LoadBegin(WellFormed)
    \/ LoadKeys \/ LoadAssignMtx \/ LoadAssignRest \/ LoadMaps
    \/ LoadExcept \/ LoadErrMsg

\* ------------------------------------------------------------------------
\* Extrinsic.load(mtx, dist, FILE_NAME) for one camera label.  file is what
\* the calibration store holds under FILE_NAME: the id of a record, or 0 when
\* the file is absent or malformed.  Yields the fields after the call and
\* whether it raised.
ExtrinsicLoad(label, file) ==
    IF intrinsic.mtx = None \/ intrinsic.distortion_coefficients = None
       \/ file = 0
    THEN [cams |-> cams, mtx |-> mtx, dist |-> dist, raised |-> TRUE]
    ELSE [cams |-> [cams EXCEPT ![label] = CalibTable[file]],
          mtx |-> intrinsic.mtx, dist |-> intrinsic.distortion_coefficients,
          raised |-> FALSE]

\* ExtrinsicSubscriber has no attribute `update` (its __init__, lines 98-119,
\* sets only _VIDEO_WIDTH, _VIDEO_HEIGHT, _sub_extrinsic_params, intrinsic and
\* extrinsic), so evaluating self.update at line 141 raises AttributeError.
SubscriberHasUpdate == FALSE

\* Lines 141-142, were the loop to run: `val = True` rebinds the loop
\* variable and stores nothing in the dictionary.
FlagLoop(u) == u

\* The dirty flags after the handler (lines 141-147): the loop runs only when
\* nothing raised before it.
HandlerFlags(known, raised, u) ==
    IF known /\ ~raised THEN FlagLoop(u) ELSE u

\* ExtrinsicSubscriber.cb_extrinsic_params(msg), lines 121-149
cb_extrinsic_params(label, file) ==
    LET known == label \in DOMAIN cams
        r == IF known THEN ExtrinsicLoad(label, file)
             ELSE [cams |-> cams, mtx |-> mtx, dist |-> dist, raised |-> FALSE]
        raised == known /\ (r.raised \/ ~SubscriberHasUpdate)
    IN  /\ nrel < MaxReloads
        /\ nrel' = nrel + 1
        /\ cams' = r.cams
        /\ mtx' = r.mtx
        /\ dist' = r.dist
        /\ update' = HandlerFlags(known, raised, update)
        /\ last' = [NoEvent EXCEPT
                        !.op = "extrinsic", !.label = label,
                        !.ok = known /\ ~r.raised,
                        !.msg_type = IF raised THEN "ERROR" ELSE "INFO",
                        !.result = IF raised THEN "False" ELSE "None"]
        /\ UNCHANGED <<overlay, curv_offset, intrinsic, loader, click,
                       curvature, distord_lines, coef, cache, drawst>>

\* Containment test that reports a point on the boundary as outside
ValidPointStrict(c, xi, yi) ==
    IF pointPolygonTest(c.waypoint_area, <<xi, yi>>) > 0 THEN 1 ELSE -1

\* ValidPoint of lines 233-236: the sign of the containment test of the
\* click in image coordinates against the operating-area polygon
ValidPoint(c, xi, yi) == pointPolygonTest(c.waypoint_area, <<xi, yi>>)

\* WaypointSuscriber.cb_screen_point(msg), lines 216-240; msg.x = x/NormDen
cb_screen_point(x, y) ==
    LET c == cams[cam_label]
    IN  /\ x_norm' = Some(x)
        /\ y_norm' = Some(y)
        /\ IF c = None
           THEN /\ UNCHANGED <<x_img, y_img>>
                /\ last' = [NoEvent EXCEPT
                                !.op = "click", !.label = cam_label,
                                !.arg = <<x, y>>, !.msg_type = "ERROR"]
           ELSE LET xi == (x * c.image_size[1]) \div NormDen
                    yi == (y * c.image_size[2]) \div NormDen
                IN  /\ x_img' = Some(xi)
                    /\ y_img' = Some(yi)
                    /\ last' = [NoEvent EXCEPT
                                    !.op = "click", !.label = cam_label,
                                    !.ok = TRUE, !.arg = <<x, y>>,
                                    !.valid = Some(ValidPoint(c, xi, yi))]
        /\ UNCHANGED <<overlay, curv_offset, nrel, extr, update, incnt,
                       curvature, distord_lines, coef, cache, drawst>>

\* Assignment of WaypointSuscriber.curvature by the curvature-update channel
SetCurvature(k) ==
    /\ curvature' = k
    /\ last' = [NoEvent EXCEPT !.op = "curvature"]
    /\ UNCHANGED <<overlay, curv_offset, nrel, extr, update, click,
                   distord_lines, coef, cache, drawst>>

\* ------------------------------------------------------------------------
\* WaypointSuscriber.draw(img), lines 242-432, one action per group of
\* statements between which a callback can run.  At pc = "end" the call has
\* finished (ret tells how) and its frame and locals can still be inspected;
\* DrawReturn hands the frame back.
Cur == cams[cam_label]

See == seen \cup {Cur.id}

Raise(e) == pc' = "end" /\ ret' = e

\* draw whose uncalibrated return also drops the cached geometry and the
\* consumer's flag
DrawBeginResets ==
    /\ pc = "idle"
    /\ img' = [BlankFrame EXCEPT !.marker =
                 IF x_norm # None /\ y_norm # None
                 THEN <<(Val(x_norm) * VIDEO_WIDTH) \div NormDen,
                        (Val(y_norm) * VIDEO_HEIGHT) \div NormDen>>
                 ELSE None]
    /\ IF Cur = None \/ mtx = None
       THEN /\ pc' = "end" /\ ret' = "returned" /\ seen' = {}
            /\ update' = [update EXCEPT ![W] = FALSE]
       ELSE /\ pc' = "contour" /\ ret' = "none" /\ seen' = {Cur.id}
            /\ UNCHANGED update
    /\ last' = NoEvent
    /\ UNCHANGED <<overlay, curv_offset, nrel, extr, click, curvature,
                   distord_lines, coef, cache, loc, dirty>>

\* lines 245-262: click marker, then the calibration checks
DrawBegin ==
    /\ pc = "idle"
    /\ img' = [BlankFrame EXCEPT !.marker =
                 IF x_norm # None /\ y_norm # None
                 THEN <<(Val(x_norm) * VIDEO_WIDTH) \div NormDen,
                        (Val(y_norm) * VIDEO_HEIGHT) \div NormDen>>
                 ELSE None]
    /\ IF Cur = None \/ mtx = None
       THEN pc' = "end" /\ ret' = "returned" /\ seen' = {}
       ELSE pc' = "contour" /\ ret' = "none" /\ seen' = {Cur.id}
    /\ last' = NoEvent
    /\ UNCHANGED <<overlay, curv_offset, nrel, extr, update, click,
                   curvature, distord_lines, coef, cache, loc, dirty>>

\* lines 265-269
DrawContour ==
    /\ pc = "contour"
    /\ img' = [img EXCEPT !.contour =
                 IF GUI_WAYPOINT_AREA # 0 THEN Cur.waypoint_area ELSE None]
    /\ pc' = "flag"
    /\ seen' = See
    /\ last' = NoEvent
    /\ UNCHANGED <<overlay, curv_offset, nrel, extr, update, click,
                   curvature, distord_lines, coef, cache, loc, ret, dirty>>

\* line 273
DrawFlag ==
    /\ pc = "flag"
    /\ pc' = IF update[W] THEN "ylimit" ELSE "coef"
    /\ dirty' = IF update[W] THEN "true" ELSE "false"
    /\ last' = NoEvent
    /\ UNCHANGED <<overlay, curv_offset, nrel, extr, update, click,
                   curvature, distord_lines, coef, cache, loc, img, ret,
                   seen>>

\* lines 274-276
DrawYLimit ==
    /\ pc = "ylimit"
    /\ y_limit' = Some(YLimit(Cur))
    /\ pc' = "cntline"
    /\ seen' = See
    /\ last' = NoEvent
    /\ UNCHANGED <<overlay, curv_offset, nrel, extr, update, click,
                   curvature, distord_lines, coef, cnt_line, proj_m, loc,
                   img, ret, dirty>>

\* lines 278-296
DrawCntLine ==
    /\ pc = "cntline"
    /\ LET cl == CntLine(Cur, Val(y_limit), mtx, dist)
       IN  IF cl = None
           THEN Raise("SingularProjection") /\ UNCHANGED cnt_line
           ELSE cnt_line' = cl /\ pc' = "tabinit" /\ UNCHANGED ret
    /\ seen' = See
    /\ last' = NoEvent
    /\ UNCHANGED <<overlay, curv_offset, nrel, extr, update, click,
                   curvature, distord_lines, coef, y_limit, proj_m, loc, img,
                   dirty>>

\* lines 297-300
DrawTabInit ==
    /\ pc = "tabinit"
    /\ proj_m' = Some(<<>>)
    /\ loc' = [loc EXCEPT !.increment = 1, !.idx_y = StartIdx(Cur)]
    /\ pc' = "tab"
    /\ seen' = See
    /\ last' = NoEvent
    /\ UNCHANGED <<overlay, curv_offset, nrel, extr, update, click,
                   curvature, distord_lines, coef, y_limit, cnt_line, img,
                   ret, dirty>>

\* A table loop whose pass leaves idx_y and the table as they are
DrawTabStalls ==
    /\ pc = "tab"
    /\ IF loc.idx_y >= -Cur.view_coord[2] + Val(y_limit)
       THEN /\ pc' = "tab"
            /\ UNCHANGED <<proj_m, loc>>
       ELSE /\ pc' = "clear"
            /\ UNCHANGED <<proj_m, loc>>
    /\ seen' = See
    /\ last' = NoEvent
    /\ UNCHANGED <<overlay, curv_offset, nrel, extr, update, click,
                   curvature, distord_lines, coef, y_limit, cnt_line, img,
                   ret, dirty>>

\* lines 302-304, one evaluation of the loop condition and, if it holds,
\* one pass of the body
DrawTab ==
    /\ pc = "tab"
    /\ IF loc.idx_y >= -Cur.view_coord[2] + Val(y_limit)
       THEN /\ proj_m' = Some(Append(Val(proj_m), ProjMEntry(loc.idx_y, Cur)))
            /\ loc' = [loc EXCEPT !.idx_y = loc.idx_y - loc.increment,
                                  !.increment = loc.increment + 1]
            /\ pc' = "tab"
       ELSE /\ pc' = "clear"
            /\ UNCHANGED <<proj_m, loc>>
    /\ seen' = See
    /\ last' = NoEvent
    /\ UNCHANGED <<overlay, curv_offset, nrel, extr, update, click,
                   curvature, distord_lines, coef, y_limit, cnt_line, img,
                   ret, dirty>>

\* draw that forgets line 306
DrawClearSkipped ==
    /\ pc = "clear"
    /\ pc' = "coef"
    /\ last' = NoEvent
    /\ UNCHANGED <<overlay, curv_offset, nrel, extr, update, click,
                   curvature, distord_lines, coef, cache, loc, img, ret,
                   seen, dirty>>

\* line 306
DrawClear ==
    /\ pc = "clear"
    /\ update' = [update EXCEPT ![W] = FALSE]
    /\ pc' = "coef"
    /\ last' = NoEvent
    /\ UNCHANGED <<overlay, curv_offset, nrel, extr, click, curvature,
                   distord_lines, coef, cache, loc, img, ret, seen, dirty>>

\* lines 311-314: ct_dist and AR
DrawCoefRight ==
    /\ pc = "coef"
    /\ loc' = [loc EXCEPT !.ct_dist = CtDist(Cur)]
    /\ coef' = [coef EXCEPT
                  !.AR = Coefficients(curvature, curv_offset, Cur).AR]
    /\ pc' = "coefl"
    /\ seen' = See
    /\ last' = NoEvent
    /\ UNCHANGED <<overlay, curv_offset, nrel, extr, update, click,
                   curvature, distord_lines, cache, img, ret, dirty>>

\* lines 315-316: AL and CR
DrawCoefLeft ==
    /\ pc = "coefl"
    /\ coef' = [coef EXCEPT
                  !.AL = Coefficients(curvature, curv_offset, Cur).AL,
                  !.CR = Cur.view_coord[1] + loc.ct_dist]
    /\ pc' = "coefc"
    /\ seen' = See
    /\ last' = NoEvent
    /\ UNCHANGED <<overlay, curv_offset, nrel, extr, update, click,
                   curvature, distord_lines, cache, loc, img, ret, dirty>>

\* lines 317-319: CL, AL again and BL
DrawCoefCenter ==
    /\ pc = "coefc"
    /\ coef' = [coef EXCEPT
                  !.CL = Cur.view_coord[1] - loc.ct_dist,
                  !.AL = Coefficients(curvature, curv_offset, Cur).AL,
                  !.BL = Coefficients(curvature, curv_offset, Cur).BL]
    /\ pc' = "sinit"
    /\ seen' = See
    /\ last' = NoEvent
    /\ UNCHANGED <<overlay, curv_offset, nrel, extr, update, click,
                   curvature, distord_lines, cache, loc, img, ret, dirty>>

\* lines 323-327
DrawSampleInit ==
    /\ pc = "sinit"
    /\ loc' = [NoLocals EXCEPT !.idx_y = StartIdx(Cur),
                               !.ct_dist = loc.ct_dist]
    /\ pc' = "left"
    /\ seen' = See
    /\ last' = NoEvent
    /\ UNCHANGED <<overlay, curv_offset, nrel, extr, update, click,
                   curvature, distord_lines, coef, cache, img, ret, dirty>>

\* Sampling that appends the point before testing it, so that the first
\* outside point is retained
SideStepKeepsOutside(out, proj, s) ==
    IF out THEN [out |-> out, proj |-> proj, raised |-> FALSE]
    ELSE IF s = None THEN [out |-> out, proj |-> proj, raised |-> TRUE]
    ELSE [out |-> s.in_cnt < 0, proj |-> Append(proj, s.pt), raised |-> FALSE]

\* One side's part of a pass of the sampling loop (lines 333-353 and
\* 356-376): out is lout/rout, proj the side's list, s the side's sample.
SideStep(out, proj, s) ==
    IF out THEN [out |-> out, proj |-> proj, raised |-> FALSE]
    ELSE IF s = None THEN [out |-> out, proj |-> proj, raised |-> TRUE]
    ELSE IF s.in_cnt >= 0
         THEN [out |-> FALSE, proj |-> Append(proj, s.pt), raised |-> FALSE]
         ELSE [out |-> TRUE, proj |-> proj, raised |-> FALSE]

\* lines 329-353: the loop condition and the left side
DrawLeft ==
    /\ pc = "left"
    /\ IF y_limit = None
       THEN Raise("TypeError") /\ UNCHANGED loc
       ELSE IF loc.idx_y > -Cur.view_coord[2] + Val(y_limit)
            THEN LET s == IF loc.lout THEN None
                          ELSE SamplePoint(coef.AL, coef.BL, coef.CL,
                                           loc.idx_y, Cur, mtx, dist,
                                           distord_lines)
                     r == SideStep(loc.lout, loc.left_proj, s)
                 IN  IF r.raised
                     THEN Raise("SingularProjection") /\ UNCHANGED loc
                     ELSE /\ loc' = [loc EXCEPT !.lout = r.out,
                                                !.left_proj = r.proj]
                          /\ pc' = "right"
                          /\ UNCHANGED ret
            ELSE pc' = "segs" /\ UNCHANGED <<loc, ret>>
    /\ seen' = See
    /\ last' = NoEvent
    /\ UNCHANGED <<overlay, curv_offset, nrel, extr, update, click,
                   curvature, distord_lines, coef, cache, img, dirty>>

\* lines 356-378: the right side and the index step
DrawRight ==
    /\ pc = "right"
    /\ LET s == IF loc.rout THEN None
                ELSE SamplePoint(coef.AR, coef.BR, coef.CR, loc.idx_y, Cur,
                                 mtx, dist, distord_lines)
           r == SideStep(loc.rout, loc.right_proj, s)
       IN  IF r.raised
           THEN Raise("SingularProjection") /\ UNCHANGED loc
           ELSE /\ loc' = [loc EXCEPT !.rout = r.out, !.right_proj = r.proj,
                                      !.idx_y = loc.idx_y - loc.increment,
                                      !.increment = loc.increment + 1]
                /\ pc' = "left"
                /\ UNCHANGED ret
    /\ seen' = IF loc.rout THEN seen ELSE See
    /\ last' = NoEvent
    /\ UNCHANGED <<overlay, curv_offset, nrel, extr, update, click,
                   curvature, distord_lines, coef, cache, img, dirty>>

\* The colour-stepping loop of one segment (lines 393-400 / 414-421):
\* d is _proj_m[idx]; s carries color_idx, thickness_idx, the primitives
\* drawn so far and the exception raised, if any.
RECURSIVE ColorSteps(_, _, _)
ColorSteps(d, idx, s) ==
    IF s.color_idx + 1 > Len(DISTAN_M) THEN [s EXCEPT !.exc = "IndexError"]
    ELSE IF d > DISTAN_M[s.color_idx + 1]
    THEN LET ci == s.color_idx + 1
             ti == s.thickness_idx -
                   (IF s.thickness_idx > 0 THEN 1 ELSE s.thickness_idx)
         IN  IF ci + 1 > Len(COLORS)
             THEN [s EXCEPT !.color_idx = ci, !.thickness_idx = ti,
                            !.exc = "IndexError"]
             ELSE ColorSteps(d, idx,
                     [s EXCEPT !.color_idx = ci, !.thickness_idx = ti,
                               !.prims = Append(s.prims,
                                   [kind |-> "tick", idx |-> idx,
                                    color_idx |-> ci,
                                    thickness |-> HOZ_THICK + ti])])
    ELSE s

\* for idx in range(n - 1) over one side (lines 389-405 / 410-427); idx is
\* the Python index, table is _proj_m (boxed)
RECURSIVE SideSegments(_, _, _, _)
SideSegments(n, table, idx, s) ==
    IF idx >= n - 1 THEN s
    ELSE IF table = None THEN [s EXCEPT !.exc = "TypeError"]
    ELSE IF idx + 1 > Len(Val(table)) THEN [s EXCEPT !.exc = "IndexError"]
    ELSE IF Val(table)[idx + 1] > DISTAN_M[Len(DISTAN_M)] THEN s
    ELSE LET t == ColorSteps(Val(table)[idx + 1], idx, s)
         IN  IF t.exc # "" THEN t
             ELSE SideSegments(n, table, idx + 1,
                     [t EXCEPT !.prims = Append(t.prims,
                         [kind |-> "seg", idx |-> idx,
                          color_idx |-> t.color_idx,
                          thickness |-> VER_THICK + t.thickness_idx])])

\* Segment drawing that starts one thickness step short of the palette
SideStartShort == [color_idx |-> 0, thickness_idx |-> Len(COLORS) - 1,
                   prims |-> <<>>, exc |-> ""]

\* Segment drawing that starts from the thinnest step
SideStartThin == [color_idx |-> 0, thickness_idx |-> 0,
                  prims |-> <<>>, exc |-> ""]

SideStart == [color_idx |-> 0, thickness_idx |-> Len(COLORS),
              prims |-> <<>>, exc |-> ""]

\* lines 380-432: both sides' segments, then the center line
DrawSegs ==
    /\ pc = "segs"
    /\ LET L == SideSegments(Len(loc.left_proj), proj_m, 0, SideStart)
           R == SideSegments(Len(loc.right_proj), proj_m, 0, SideStart)
       IN  IF L.exc # ""
           THEN img' = [img EXCEPT !.left = L.prims] /\ Raise(L.exc)
           ELSE IF R.exc # ""
           THEN /\ img' = [img EXCEPT !.left = L.prims, !.right = R.prims]
                /\ Raise(R.exc)
           ELSE IF cnt_line = None
           THEN /\ img' = [img EXCEPT !.left = L.prims, !.right = R.prims]
                /\ Raise("TypeError")
           ELSE /\ img' = [img EXCEPT !.left = L.prims, !.right = R.prims,
                                      !.cline = cnt_line]
                /\ pc' = "end"
                /\ ret' = "returned"
    /\ last' = NoEvent
    /\ UNCHANGED <<overlay, curv_offset, nrel, extr, update, click,
                   curvature, distord_lines, coef, cache, loc, seen, dirty>>

\* the call is over: its locals and its frame leave the model
DrawReturn ==
    /\ pc = "end"
    /\ pc' = "idle"
    /\ loc' = NoLocals
    /\ img' = BlankFrame
    /\ ret' = "none"
    /\ seen' = {}
    /\ dirty' = "unread"
    /\ last' = NoEvent
    /\ UNCHANGED <<overlay, curv_offset, nrel, extr, update, click,
                   curvature, distord_lines, coef, cache>>

draw ==
    \/ DrawBegin \/ DrawContour \/ DrawFlag \/ DrawYLimit \/ DrawCntLine
    \/ DrawTabInit \/ DrawTab \/ DrawClear \/ DrawCoefRight \/ DrawCoefLeft
    \/ DrawCoefCenter \/ DrawSampleInit
    \/ DrawLeft \/ DrawRight \/ DrawSegs \/ DrawReturn

\* ------------------------------------------------------------------------
\* VisualDebuggerSubscriber, lines 32-94.  The subscription is created in
\* the parent node's callback group (lines 47-51); the callback sleeps for
\* the display time, so a message delivered meanwhile starts a second
\* invocation on another executor thread.  An invocation is modelled line by
\* line; time is not measured, a sleeping invocation wakes at some later
\* step.

\* The messages the topic may carry (msg.data, msg.type)
VisualMessages == {[data |-> "low battery", type |-> "WARN"],
                   [data |-> "motor fault", type |-> "ERROR"],
                   [data |-> "docked", type |-> "INFO"]}

\* The invocation has executed line 62
Arrived(i) == calls[i].at # "idle"

\* The invocation is between line 62 and the end of line 68
InProgress(i) == calls[i].at \in {"type", "sleep", "clear"}

\* line 62 of the i-th invocation, delivered with message m
VisSetMsg(i, m) ==
    /\ calls[i].at = "idle"
    /\ \A j \in 1..(i - 1) : Arrived(j)
    /\ msg' = m.data
    /\ calls' = [calls EXCEPT ![i] = [at |-> "type", data |-> m.data,
                                      type |-> m.type]]
    /\ UNCHANGED <<rover, type, vpc, color, shown>>

\* line 63
VisSetType(i) ==
    /\ calls[i].at = "type"
    /\ type' = calls[i].type
    /\ calls' = [calls EXCEPT ![i].at = "sleep"]
    /\ UNCHANGED <<rover, msg, vpc, color, shown>>

\* lines 65-67: the sleep is over and the message is cleared
VisWake(i) ==
    /\ calls[i].at = "sleep"
    /\ msg' = ""
    /\ calls' = [calls EXCEPT ![i].at = "clear"]
    /\ UNCHANGED <<rover, type, vpc, color, shown>>

\* An invocation's end that leaves the type as it is
VisClearTypeSkipped(i) ==
    /\ calls[i].at = "clear"
    /\ calls' = [calls EXCEPT ![i].at = "done"]
    /\ UNCHANGED <<rover, msg, type, vpc, color, shown>>

\* line 68
VisClearType(i) ==
    /\ calls[i].at = "clear"
    /\ type' = "INFO"
    /\ calls' = [calls EXCEPT ![i].at = "done"]
    /\ UNCHANGED <<rover, msg, vpc, color, shown>>

\* The steps of the i-th invocation after its arrival
VisRun(i) == VisSetType(i) \/ VisWake(i) \/ VisClearType(i)

\* VisualDebuggerSubscriber.cb_visual_debugger(msg), lines 53-68
cb_visual_debugger ==
    \/ \E i \in 1..MaxMsgs, m \in VisualMessages : VisSetMsg(i, m)
    \/ \E i \in 1..MaxMsgs : VisRun(i)

\* line 78, on a new frame
DebugDrawBegin ==
    /\ vpc = "idle"
    /\ vpc' = IF msg = "" THEN "end" ELSE "color"
    /\ shown' = None
    /\ UNCHANGED <<rover, msg, type, calls, color>>

\* lines 81-89
DebugDrawColor ==
    /\ vpc = "color"
    /\ color' = IF type \in {"ERROR", "ERR"} THEN "red"
                ELSE IF type \in {"WARNING", "WARN"} THEN "yellow"
                ELSE IF type = "OKGREEN" THEN "green"
                ELSE "white"
    /\ vpc' = "text"
    /\ UNCHANGED <<rover, msg, type, calls, shown>>

\* lines 91-94
DebugDrawText ==
    /\ vpc = "text"
    /\ shown' = Some([text |-> msg, color |-> color])
    /\ vpc' = "end"
    /\ UNCHANGED <<rover, msg, type, calls, color>>

\* the call is over: the frame goes to the stream as it is
DebugDrawReturn ==
    /\ vpc = "end"
    /\ vpc' = "idle"
    /\ color' = "white"
    /\ UNCHANGED <<rover, msg, type, calls, shown>>

\* VisualDebuggerSubscriber.draw(img), lines 70-94
draw_debugger ==
    DebugDrawBegin \/ DebugDrawColor \/ DebugDrawText \/ DebugDrawReturn

\* The calibration pipeline: the intrinsic file is loaded and calibration
\* updates arrive while frames are rendered; the curvature stays at its
\* initial value.
Next ==
    \/ LoadWellFormed
    \/ \E label \in MsgLabels, file \in 0..NumCalibs :
          cb_extrinsic_params(label, file)
    \/ draw

Spec == Init /\ [][Next]_vars

\* The first calibration update of a run.
CalibrateOnce(label, file) ==
    /\ nrel = 0
    /\ cb_extrinsic_params(label, file)

\* The steering path: the intrinsic file is loaded, one calibration update
\* and curvature updates arrive while frames are rendered.
NextTurn ==
    \/ LoadWellFormed
    \/ \E label \in MsgLabels, file \in 0..NumCalibs :
          CalibrateOnce(label, file)
    \/ \E k \in Curvatures : SetCurvature(k)
    \/ draw

SpecTurn == Init /\ [][NextTurn]_vars

\* The waypoint path: the intrinsic file is loaded, one calibration update
\* and clicks arrive while frames are rendered; the curvature stays at its
\* initial value.
NextClick ==
    \/ LoadWellFormed
    \/ \E label \in MsgLabels, file \in 0..NumCalibs :
          CalibrateOnce(label, file)
    \/ \E x \in NormCoords, y \in NormCoords : cb_screen_point(x, y)
    \/ draw

SpecClick == Init /\ [][NextClick]_vars

\* The intrinsic model by itself: load is called again and again on the
\* object the constructor made (lines 26-34), with whatever the file system
\* holds, while calibration updates read the object.
NextLoad ==
    \/ load
    \/ \E label \in MsgLabels, file \in 0..NumCalibs :
          cb_extrinsic_params(label, file)

SpecLoad == Init /\ [][NextLoad]_vars

\* The curve coefficients by themselves: the node is started with any of the
\* configured curvature offsets, the intrinsic file is loaded, the
\* calibration is delivered once, curvature values below and above every
\* offset arrive while frames are rendered.
InitCoef ==
    /\ Constructed
    /\ curv_offset \in Offsets

NextCoef ==
    \/ LoadWellFormed
    \/ \E label \in MsgLabels, file \in 0..NumCalibs :
          CalibrateOnce(label, file)
    \/ \E k \in FineCurvatures \cup SteepCurvatures : SetCurvature(k)
    \/ draw

SpecCoef == InitCoef /\ [][NextCoef]_vars

\* The render loop: the render context keeps calling draw and keeps running
\* the call it is in, while the calibration is delivered and then updated
\* once, at any time, and clicks arrive at any time.  The load of the
\* intrinsic file runs alongside, from its first line to its last.  draw
\* reads of a click only whether there was one (lines 245-254 place the
\* marker), so one click point stands for all.
Recalibrate(label, file) ==
    /\ nrel <= 1
    /\ cb_extrinsic_params(label, file)

NextLive ==
    \/ LoadWellFormed
    \/ \E label \in MsgLabels, file \in 0..NumCalibs : Recalibrate(label, file)
    \/ cb_screen_point(1, 1)
    \/ draw

\* The steps of draw before the sampling loop, and its return.
DrawUpToSampling ==
    \/ DrawBegin \/ DrawContour \/ DrawFlag \/ DrawYLimit \/ DrawCntLine
    \/ DrawTabInit \/ DrawTab \/ DrawClear \/ DrawCoefRight \/ DrawCoefLeft
    \/ DrawCoefCenter \/ DrawSampleInit
    \/ DrawReturn

\* What every step of DrawLeft, DrawRight and DrawSegs does to the position
\* of the render context: each of them moves it.
SamplingMoves ==
    /\ pc \in {"left", "right", "segs"}
    /\ pc' \in {"left", "right", "segs", "end"}

\* The render context is never starved: a step of draw that stays possible
\* is taken.  For the sampling loop and the segments the condition is put
\* on the step's effect on pc.
SpecLive ==
    /\ Init /\ [][NextLive]_vars
    /\ WF_vars(DrawUpToSampling)
    /\ WF_pc(SamplingMoves)

\* A recalibration at a finer ground resolution: the calibration store holds
\* the first record of the table and then the last one, which maps twice as
\* many pixels to a metre; either is delivered, twice at most, while frames
\* are rendered.
RecalFiles == {1, Len(CalibTable)}

NextRecal ==
    \/ LoadWellFormed
    \/ \E file \in RecalFiles : Recalibrate(cam_label, file)
    \/ draw

SpecRecal == Init /\ [][NextRecal]_vars

\* The diagnostic overlay by itself: messages arrive at any time, also while
\* earlier invocations sleep, and frames are rendered at any time.  An
\* invocation that has arrived keeps running: its thread is scheduled and
\* its sleep ends.
NextVis ==
    \/ cb_visual_debugger
    \/ draw_debugger

SpecVis ==
    /\ Init /\ [][NextVis]_vars
    /\ \A i \in 1..MaxMsgs : WF_vars(VisRun(i))

\* ------------------------------------------------------------------------
\* Reference values the properties compare the program's state with

\* idx_y at the k-th pass of either index loop: the start minus 1 + ... + (k-1)
IdxAt(c, k) == StartIdx(c) - (k * (k - 1)) \div 2

\* Number of passes of an index loop that runs while idx_y ~ bound, where
\* strict tells whether the comparison is > (sampling) or >= (table)
Passes(c, yl, strict) ==
    LET b == -c.view_coord[2] + yl
    IN  Cardinality({k \in 1..(Abs(StartIdx(c) - b) + 2) :
                        IF strict THEN IdxAt(c, k) > b ELSE IdxAt(c, k) >= b})

\* The distance table of calibration c for the limit yl
TableOf(c, yl) ==
    [k \in 1..Passes(c, yl, FALSE) |-> ProjMEntry(IdxAt(c, k), c)]

\* The cached geometry of calibration c
CacheOf(c) ==
    <<Some(YLimit(c)), CntLine(c, YLimit(c), mtx, dist),
      Some(TableOf(c, YLimit(c)))>>

\* The running draw has read one calibration record only, the current one
CleanDraw == Cur # None /\ seen = {Cur.id}

Sampling == pc \in {"left", "right", "segs"}

\* The k-th sample of a side under the current calibration and coefficients
LeftSample(k) ==
    SamplePoint(coef.AL, coef.BL, coef.CL, IdxAt(Cur, k), Cur, mtx, dist,
                distord_lines)

RightSample(k) ==
    SamplePoint(coef.AR, coef.BR, coef.CR, IdxAt(Cur, k), Cur, mtx, dist,
                distord_lines)

Outside(s) == s # None /\ s.in_cnt < 0

\* ------------------------------------------------------------------------
\* C1 (stated as claimed; the code violates it): a render that has read only
\* the current calibration samples and draws with cached geometry computed
\* from that calibration.
C1_NoStaleRender ==
    (Sampling /\ CleanDraw) => cache = CacheOf(Cur)

\* C2 (stated as claimed; the code violates it): right after a
\* calibration-update event for a known label whose reload succeeded, every
\* registered consumer's dirty flag is true.
C2_ReloadRaisesAllFlags ==
    (last.op = "extrinsic" /\ last.ok) => \A c \in DOMAIN update : update[c]

\* C3 (stated as claimed; the code violates it): a calibration-update event
\* that takes the exception path of the handler (an error is logged, False
\* is returned, nothing is raised) leaves the calibration record of every
\* camera and every dirty flag as they were.
C3_FailedReloadKeepsState ==
    [][(last'.op = "extrinsic" /\ last'.result = "False")
        => (/\ cams' = cams
            /\ update' = update
            /\ last'.msg_type = "ERROR")]_vars

\* C4 (stated as claimed; the code violates it): a click handled while the
\* camera is uncalibrated leaves the stored click point as it was.
C4_UncalibratedClickDiscarded ==
    [][(last'.op = "click" /\ ~last'.ok)
        => (UNCHANGED <<x_norm, y_norm, x_img, y_img>>)]_vars

\* C5: when the sampling loop of a render that read one calibration is
\* over, each side's retained samples are exactly the samples before the
\* first index whose projected point tests outside the polygon (all of them
\* if none does), independently of the other side.
C5_SidesStopAtFirstOutside ==
    (pc = "segs" /\ CleanDraw) =>
        LET n == Passes(Cur, Val(y_limit), TRUE)
            firstL == IF \E k \in 1..n : Outside(LeftSample(k))
                      THEN CHOOSE k \in 1..n :
                              /\ Outside(LeftSample(k))
                              /\ \A j \in 1..(k - 1) : ~Outside(LeftSample(j))
                      ELSE n + 1
            firstR == IF \E k \in 1..n : Outside(RightSample(k))
                      THEN CHOOSE k \in 1..n :
                              /\ Outside(RightSample(k))
                              /\ \A j \in 1..(k - 1) : ~Outside(RightSample(j))
                      ELSE n + 1
        IN  /\ loc.left_proj = [k \in 1..(firstL - 1) |-> LeftSample(k).pt]
            /\ loc.right_proj = [k \in 1..(firstR - 1) |-> RightSample(k).pt]
            /\ loc.lout = (firstL <= n)
            /\ loc.rout = (firstR <= n)

\* both sides stopped, at different indices, and a later sample of the left
\* side would again have been inside
C5_Witness ==
    /\ pc = "segs" /\ CleanDraw
    /\ loc.lout /\ loc.rout
    /\ Len(loc.left_proj) # Len(loc.right_proj)
    /\ \E k \in (Len(loc.left_proj) + 2)..Passes(Cur, Val(y_limit), TRUE) :
          LeftSample(k) # None /\ LeftSample(k).in_cnt >= 0

\* C6 (stated as claimed; the code violates it): a projection failure of a
\* sample never ends the render with an exception.
C6_SampleFailureStaysLocal ==
    [][(pc \in {"left", "right"}) => (ret' # "SingularProjection")]_vars

\* C7 (stated as claimed; the code violates it): all calibration values one
\* execution of draw reads come from one calibration record, and the cached
\* y_limit and distance table it samples with belong to that record.
C7_OneCalibrationPerDraw ==
    /\ Cardinality(seen) <= 1
    /\ Sampling =>
          \A i \in seen :
              /\ y_limit = Some(YLimit(CalibTable[i]))
              /\ proj_m = Some(TableOf(CalibTable[i], YLimit(CalibTable[i])))

\* C8: a draw call that found the flag true and read one calibration ends
\* with y_limit, the center line and the distance table computed from that
\* calibration and with the flag false; the cached geometry changes in no
\* other step, in particular not in a draw call that found the flag false.
C8_RecomputeWhenDirtyOnly ==
    /\ []((pc = "end" /\ ret = "returned" /\ dirty = "true" /\ CleanDraw)
            => (cache = CacheOf(Cur) /\ ~update[W]))
    /\ [][(cache' # cache) => (dirty = "true")]_vars

\* a draw call that found the flag false has ended with the geometry an
\* earlier call computed from the current calibration
C8_Witness ==
    /\ pc = "end" /\ ret = "returned" /\ dirty = "false" /\ CleanDraw
    /\ cache = CacheOf(Cur)
    /\ nrel >= 2

\* C9: a draw call while the camera is uncalibrated returns after drawing
\* the click marker (if a click point is set) and nothing else, and leaves
\* the curve coefficients, the cached geometry and the dirty flag unchanged.
C9_UncalibratedDrawOnlyMarker ==
    [][/\ (pc = "idle" /\ pc' # "idle" /\ (Cur = None \/ mtx = None))
          => (/\ pc' = "end" /\ ret' = "returned"
              /\ UNCHANGED <<coef, cache, update>>
              /\ img'.contour = None /\ img'.left = <<>>
              /\ img'.right = <<>> /\ img'.cline = None
              /\ (img'.marker # None) = (x_norm # None /\ y_norm # None))
       /\ (pc = "end" /\ pc' = "idle" /\ seen = {})
          => UNCHANGED <<coef, cache, update>>]_vars

\* an uncalibrated draw call has ended with the click marker on the frame
C9_Witness ==
    /\ pc = "end" /\ ret = "returned" /\ Cur = None
    /\ img.marker # None
    /\ update[W]

\* C10: wherever draw samples the curves or indexes the distance table, the
\* consumer's dirty flag is false and y_limit, the center line and the
\* distance table have been computed.
C10_NoUseAcrossDirtyFlag ==
    Sampling => /\ ~update[W]
                /\ y_limit # None /\ cnt_line # None /\ proj_m # None

\* sampling is under way in a render that started after a second
\* calibration update
C10_Witness ==
    /\ pc = "right" /\ Len(loc.left_proj) > 0
    /\ dirty = "false"
    /\ nrel >= 2

\* ------------------------------------------------------------------------
\* Number of thresholds of DISTAN_M the distance d has exceeded
Crossed(d) == Cardinality({t \in 1..Len(DISTAN_M) : d > DISTAN_M[t]})

\* The primitives of one side follow the palette rule for the table tab and
\* n retained samples: prims is what was drawn, indices are Python indices
PaletteRule(prims, tab, n) ==
    LET segs == {q \in 1..Len(prims) : prims[q].kind = "seg"}
        ticks == {q \in 1..Len(prims) : prims[q].kind = "tick"}
        Far(i) == tab[i + 1] > DISTAN_M[Len(DISTAN_M)]
        Before(i) == IF i = 0 THEN 0 ELSE Crossed(tab[i])
    IN  /\ \A q \in segs :
              LET i == prims[q].idx
              IN  /\ i + 1 <= Len(tab) /\ i < n - 1
                  /\ prims[q].color_idx = Crossed(tab[i + 1])
                  /\ prims[q].thickness =
                        VER_THICK + Len(COLORS) - Crossed(tab[i + 1])
                  /\ \A j \in 0..i : ~Far(j)
                  /\ {prims[t].color_idx : t \in {u \in ticks :
                                                   prims[u].idx = i}}
                        = (Before(i) + 1)..Crossed(tab[i + 1])
        /\ \A q \in ticks :
              /\ \E r \in segs : prims[r].idx = prims[q].idx
              /\ prims[q].thickness =
                    HOZ_THICK + Len(COLORS) - prims[q].color_idx
        /\ \A i \in 0..(n - 2) :
              (\A j \in 0..i : j + 1 <= Len(tab) /\ ~Far(j))
                  => \E q \in segs : prims[q].idx = i

\* C11: in a render that completed, every footprint segment of either side
\* has the palette index equal to the number of thresholds its cached
\* distance has exceeded and a thickness one step smaller per threshold, a
\* tick is drawn for every palette step, and no segment is drawn at or after
\* the first index whose distance exceeds the last threshold.
C11_PaletteFollowsThresholds ==
    (pc = "end" /\ ret = "returned" /\ proj_m # None) =>
        /\ PaletteRule(img.left, Val(proj_m), Len(loc.left_proj))
        /\ PaletteRule(img.right, Val(proj_m), Len(loc.right_proj))

\* a completed render drew a left segment past two thresholds, with the tick
\* of a palette step on it, and stopped the left side at a retained sample
\* whose cached distance is beyond the last threshold
C11_Witness ==
    /\ pc = "end" /\ ret = "returned"
    /\ \E q \in 1..Len(img.left) :
          /\ img.left[q].kind = "seg" /\ img.left[q].color_idx >= 2
    /\ \E q \in 1..Len(img.left) :
          /\ img.left[q].kind = "tick" /\ img.left[q].color_idx >= 2
    /\ Len(img.right) > 0
    /\ \E i \in 0..(Len(loc.left_proj) - 2) :
          /\ i + 1 <= Len(Val(proj_m))
          /\ Val(proj_m)[i + 1] > DISTAN_M[Len(DISTAN_M)]

\* C12 (stated as claimed; the code violates it): a calibration-update event
\* whose label is not a key of extrinsic.cams changes no calibration field
\* and no dirty flag, and is logged as a warning, not as an update.
C12_UnknownLabelWarned ==
    [][(last'.op = "extrinsic" /\ last'.label \notin CamLabels)
        => (/\ cams' = cams /\ mtx' = mtx /\ dist' = dist
            /\ update' = update
            /\ last'.msg_type = "WARNING")]_vars

\* The point pt lies in the closed rectangle cnt
InClosedArea(cnt, pt) ==
    /\ cnt[1] <= pt[1] /\ pt[1] <= cnt[3]
    /\ cnt[2] <= pt[2] /\ pt[2] <= cnt[4]

\* C13: a click handled while calibrated is recorded as the click point
\* whatever the containment test says, its containment result is
\* non-negative exactly when the point is inside or on the boundary of the
\* operating-area polygon, a click outside it does not make incnt true, and
\* a draw that starts while a click point is recorded draws its marker.
C13_OutsideClickRecordedNotValid ==
    [][/\ (last'.op = "click" /\ last'.ok) =>
            (/\ x_norm' = Some(last'.arg[1]) /\ y_norm' = Some(last'.arg[2])
             /\ x_img' = Some((last'.arg[1] * Cur.image_size[1]) \div NormDen)
             /\ y_img' = Some((last'.arg[2] * Cur.image_size[2]) \div NormDen)
             /\ (Val(last'.valid) >= 0) =
                    InClosedArea(Cur.waypoint_area, <<Val(x_img'), Val(y_img')>>)
             /\ (Val(last'.valid) < 0 => ~incnt'))
       /\ (pc = "idle" /\ pc' # "idle" /\ x_norm # None /\ y_norm # None) =>
            (img'.marker = <<(Val(x_norm) * VIDEO_WIDTH) \div NormDen,
                             (Val(y_norm) * VIDEO_HEIGHT) \div NormDen>>)
      ]_vars

\* a calibrated draw is under way with the marker of a recorded click that
\* lies strictly outside the operating area
C13_Witness ==
    /\ pc = "contour" /\ Cur # None
    /\ x_img # None /\ y_img # None
    /\ ~InClosedArea(Cur.waypoint_area, <<Val(x_img), Val(y_img)>>)
    /\ img.marker # None
    /\ ~incnt

\* ------------------------------------------------------------------------
\* No call of IntrinsicClass.load is between its first and its last line
LoadAtRest == ipc \in {"idle", "end"}

\* The running load has ended without populating the model for good
LoadFailed == ipc = "end" /\ (ifile.doc = "absent" \/ iret # "returned")

\* C14: wherever no load is in progress, the camera matrix and the
\* distortion coefficients are both set or both None.
C14_MtxAndDistTogether ==
    LoadAtRest =>
        ((intrinsic.mtx = None) = (intrinsic.distortion_coefficients = None))

\* a load of a well-formed file, which had assigned both fields, has ended
C14_Witness ==
    /\ ipc = "end" /\ ifile = WellFormed
    /\ intrinsic.mtx = None /\ intrinsic.distortion_coefficients = None

C16_LoadNeverRaises ==
    ipc = "end" => iret = "returned"

\* C17: a render that computes the coefficients while the curvature is 0
\* leaves AL = 0 and AR = 0, whatever the calibration and whatever the
\* configured curvature offset.
C17_ZeroCurvatureZeroCoefficients ==
    [][/\ (pc = "coef" /\ pc' = "coefl" /\ curvature = 0) => coef'.AR = 0
       /\ (pc \in {"coefl", "coefc"} /\ pc' # pc /\ curvature = 0)
             => coef'.AL = 0]_vars

\* A render has computed the coefficients at curvature 0 under a
\* non-default offset.
C17_Witness ==
    /\ pc = "sinit"
    /\ curvature = 0
    /\ curv_offset = 14
    /\ coef.AL = 0 /\ coef.AR = 0
    /\ coef.CR = Cur.view_coord[1] + 1

\* C18 as stated: once a render has computed the coefficients for a
\* curvature k > 0, AR(+k) exceeds the AR the same render would compute for
\* -k by more than twice the configured offset, and AL(-k) = -AL(+k).
\* (AR is in ten-thousandths and the offset in thousandths, hence the 20.)
C18_RightSideDiffersByTwiceOffset ==
    (pc = "sinit" /\ Cur # None /\ curvature > 0) =>
        LET pos == Coefficients(curvature, curv_offset, Cur)
            neg == Coefficients(-curvature, curv_offset, Cur)
        IN  (coef.AR = pos.AR /\ coef.AL = pos.AL) =>
                /\ coef.AR - neg.AR > 20 * curv_offset
                /\ neg.AL = -coef.AL

\* C18 amended: once a render has computed the coefficients for a curvature
\* k > 0, AR(+k) exceeds the AR the same render would compute for -k by more
\* than twice the offset when k > 100 x offset and by less than twice the
\* offset when k < 100 x offset, and AL(-k) = -AL(+k).  (The curvature is in
\* tenths and the offset in thousandths, so k > 100 x offset reads
\* curvature > curv_offset.)
C18_RightSideDiffersAboveThreshold ==
    (pc = "sinit" /\ Cur # None /\ curvature > 0) =>
        LET pos == Coefficients(curvature, curv_offset, Cur)
            neg == Coefficients(-curvature, curv_offset, Cur)
        IN  (coef.AR = pos.AR /\ coef.AL = pos.AL) =>
                /\ (curvature > curv_offset)
                      => (coef.AR - neg.AR > 20 * curv_offset)
                /\ (curvature < curv_offset)
                      => (coef.AR - neg.AR < 20 * curv_offset)
                /\ neg.AL = -coef.AL

\* A render has computed the coefficients for curvature 1.6 under the
\* offset 0.014: AR(+1.6) = 0.0384, AR(-1.6) = 0.0064, 0.032 apart, which
\* is more than 0.028.
C18_Witness ==
    /\ pc = "sinit"
    /\ curvature \in SteepCurvatures
    /\ curv_offset = 14
    /\ coef.AR = 24 * curvature /\ coef.AL = 10 * curvature
    /\ Coefficients(-curvature, curv_offset, Cur).AR = 4 * curvature
    /\ coef.AR - Coefficients(-curvature, curv_offset, Cur).AR > 280

\* C19: every call of draw that has started comes to its end, whatever
\* arrives meanwhile, and the click and calibration handlers can run in
\* every state (for the calibration handler: as long as the bound on
\* delivered updates allows one more): nothing makes them wait.
C19_DrawAndHandlersComplete ==
    /\ [](pc \notin {"idle", "end"} => <>(pc = "end"))
    /\ [](\A x \in NormCoords : ENABLED cb_screen_point(x, x))
    /\ [](nrel < MaxReloads =>
            \A label \in MsgLabels, file \in 0..NumCalibs :
                ENABLED cb_extrinsic_params(label, file))

\* A call of draw has come to its end after both index loops ran: the
\* distance table was rebuilt and both sides kept samples.
C19_Witness ==
    /\ pc = "end"
    /\ ret = "returned"
    /\ dirty = "true"
    /\ Len(Val(proj_m)) >= 2
    /\ Len(loc.left_proj) >= 2 /\ Len(loc.right_proj) >= 2

\* C20: while a render samples the curves, AL and AR are the coefficients of
\* one and the same curvature value, and CL and CR lie symmetrically around
\* the view coordinate's x: CR - view_x = view_x - CL.
C20_CoefficientsFromOneCurvature ==
    (pc \in {"sinit", "left", "right"} /\ Cur # None) =>
        /\ \E k \in Curvatures \cup FineCurvatures \cup SteepCurvatures :
              LET one == Coefficients(k, curv_offset, Cur)
              IN  coef.AL = one.AL /\ coef.AR = one.AR
        /\ coef.CR - Cur.view_coord[1] = Cur.view_coord[1] - coef.CL

\* ------------------------------------------------------------------------
\* The indices at which the segment loop of one side reads the distance
\* table (lines 389-391 / 410-412): idx runs over range(n - 1) and the loop
\* goes on to idx only if every earlier read succeeded and found a distance
\* within the last threshold.
TableReads(n, tab) ==
    {idx \in 0..(n - 2) :
        \A j \in 0..(idx - 1) :
            j + 1 <= Len(tab) /\ tab[j + 1] <= DISTAN_M[Len(DISTAN_M)]}

\* C21 (stated as claimed; the code violates it): when a render draws the
\* retained segments, every index at which it reads the distance table is
\* an index of the cached table, whatever reloads and renders came before.
C21_TableReadsInBounds ==
    (pc = "segs" /\ proj_m # None) =>
        \A n \in {Len(loc.left_proj), Len(loc.right_proj)} :
            \A idx \in TableReads(n, Val(proj_m)) : idx < Len(Val(proj_m))

\* The primitives a render has drawn on either side
SidePrims == {img.left[q] : q \in 1..Len(img.left)}
                 \cup {img.right[q] : q \in 1..Len(img.right)}

\* C22: in every render the colour index stays an index of _COLORS and of
\* _DISTAN_M (0..3) and thickness_idx stays at 1 or above, both while the
\* segment loops run and in every segment and tick they have drawn, so that
\* a segment is at least _VER_THICK + 1 thick and a tick at least
\* _HOZ_THICK + 1.
C22_PaletteIndexAndThicknessInRange ==
    /\ pc = "segs" =>
          \A n \in {Len(loc.left_proj), Len(loc.right_proj)} :
              LET s == SideSegments(n, proj_m, 0, SideStart)
              IN  /\ s.color_idx \in 0..(Len(COLORS) - 1)
                  /\ s.color_idx \in 0..(Len(DISTAN_M) - 1)
                  /\ s.thickness_idx >= 1
    /\ \A p \in SidePrims :
          /\ p.color_idx \in 0..(Len(COLORS) - 1)
          /\ p.kind = "seg" => p.thickness >= VER_THICK + 1
          /\ p.kind = "tick" => p.thickness >= HOZ_THICK + 1

\* a completed render has drawn a segment and a tick in the last colour of
\* the palette, at the smallest thickness, and has stopped a side at a
\* distance beyond the last threshold
C22_Witness ==
    /\ pc = "end" /\ ret = "returned"
    /\ \E p \in SidePrims :
          /\ p.kind = "seg" /\ p.color_idx = Len(COLORS) - 1
          /\ p.thickness = VER_THICK + 1
    /\ \E p \in SidePrims :
          /\ p.kind = "tick" /\ p.color_idx = Len(COLORS) - 1
          /\ p.thickness = HOZ_THICK + 1
    /\ \E i \in 0..(Len(loc.left_proj) - 2) :
          /\ i + 1 <= Len(Val(proj_m))
          /\ Val(proj_m)[i + 1] > DISTAN_M[Len(DISTAN_M)]

\* ------------------------------------------------------------------------
\* No invocation of cb_visual_debugger is between its first and last line
NoCallInProgress == \A i \in 1..MaxMsgs : ~InProgress(i)

\* C23: whenever no invocation of cb_visual_debugger is in progress the
\* message is empty and its type is "INFO", so that a draw that starts then
\* prints nothing; every invocation that has received a message comes to its
\* end, and a displayed message is eventually cleared, however many
\* invocations there are and however they interleave.
C23_MessagesAreCleared ==
    /\ [](NoCallInProgress => (msg = "" /\ type = "INFO"))
    /\ [][(NoCallInProgress /\ vpc = "idle" /\ vpc' # "idle")
            => (vpc' = "end" /\ shown' = None)]_vars
    /\ \A i \in 1..MaxMsgs : Arrived(i) ~> (calls[i].at = "done")
    /\ (msg # "") ~> (msg = "")

\* two invocations that carried an error and a warning have both ended, and
\* a draw that started afterwards has ended with nothing on its frame
C23_Witness ==
    /\ calls[1].at = "done" /\ calls[2].at = "done"
    /\ {calls[1].type, calls[2].type} = {"ERROR", "WARN"}
    /\ msg = "" /\ type = "INFO"
    /\ vpc = "end" /\ shown = None

\* The invocation that arrived last
Latest(i) == Arrived(i) /\ \A j \in (i + 1)..MaxMsgs : ~Arrived(j)

\* C24 (stated as claimed; the code violates it): while the invocation that
\* arrived last sleeps with its message and type displayed, the wake-up of
\* an earlier invocation (its lines 67 and 68) leaves them displayed.
C24_LaterMessageStaysDisplayed ==
    [][\A j \in 1..MaxMsgs, i \in 1..MaxMsgs :
          (/\ i < j
           /\ Latest(j) /\ calls[j].at = "sleep"
           /\ msg = calls[j].data /\ type = calls[j].type
           /\ calls[i].at \in {"sleep", "clear"}
           /\ calls'[i].at # calls[i].at)
          => (msg' = msg /\ type' = type)]_vars
====
